---- MODULE Spec2Model ----
(***************************************************************************)
(* Model of the log analysis scripts of llm-gateway:                       *)
(*   backend/scripts/analyze_conversations.py  (parse_sse_response,        *)
(*                                              analyze_conversations)     *)
(*   backend/scripts/log_analysis_report.py    (analyze_detailed_logs)     *)
(*                                                                         *)
(* Text is a sequence of tokens.  A token stands for a literal piece of    *)
(* text that the scripts' string operations never cut in two: the          *)
(* delimiters "event:" and "data:", a newline, a blank, the JSON           *)
(* punctuation, a decimal digit, and words.                                *)
(***************************************************************************)
EXTENDS Integers, Sequences, FiniteSets, TLC

VARIABLES
    log,            \* the records (decoded lines) read so far, in file order
    conversations,  \* analyze_conversations: request_id -> entry (dict)
    det,            \* analyze_detailed_logs: conversations, stats
    phase,          \* "collect" (first pass) | "done" (summary computed)
    summary,        \* the totals of the second pass of analyze_conversations
    interaction,    \* analyze_detailed_logs: the interaction patterns reported
    sse_text,       \* parse_sse_response: its argument
    sse_blocks,     \* the blocks sse_text was written from
    sse_i,          \* parse_sse_response: index of the next part of the split
    sse_st          \* parse_sse_response: events, full_text, usage

vars == <<log, conversations, det, phase, summary, interaction,
          sse_text, sse_blocks, sse_i, sse_st>>

----------------------------------------------------------------------------
(* Tokens *)

EVENT == "event:"
DATA  == "data:"
NL    == "\n"
SP    == " "
Q     == "\""
LB    == "{"
RB    == "}"
LSQ   == "["
RSQ   == "]"
COLON == ":"
COMMA == ","

Digits == {"0", "1", "2", "3", "4", "5", "6", "7", "8", "9"}

DigitVal(d) ==
    CASE d = "0" -> 0 [] d = "1" -> 1 [] d = "2" -> 2 [] d = "3" -> 3
      [] d = "4" -> 4 [] d = "5" -> 5 [] d = "6" -> 6 [] d = "7" -> 7
      [] d = "8" -> 8 [] d = "9" -> 9

IsWs(c) == c \in {SP, NL}

----------------------------------------------------------------------------
(* JSON values, as json.loads returns them: a tag and a value. *)

JNull     == [t |-> "null",  v |-> <<>>]     \* None
JTrue     == [t |-> "true",  v |-> <<>>]
JFalse    == [t |-> "false", v |-> <<>>]
JNum(n)   == [t |-> "num", v |-> n]
JStr(s)   == [t |-> "str", v |-> s]          \* s: the tokens between the quotes
JArr(a)   == [t |-> "arr", v |-> a]          \* a: sequence of values
JObj(f)   == [t |-> "obj", v |-> f]          \* f: function from key to value
EmptyDict == JObj(<<>>)                      \* {}

IsDict(x) == x.t = "obj"

\* dict.get(key, default)
Get(d, key, default) == IF key \in DOMAIN d.v THEN d.v[key] ELSE default

\* dict[key] = value
Put(d, key, value) ==
    JObj([k \in (DOMAIN d.v) \cup {key} |-> IF k = key THEN value ELSE d.v[k]])

\* Python truth value of a JSON value
Truthy(x) ==
    CASE x.t = "null"  -> FALSE
      [] x.t = "false" -> FALSE
      [] x.t = "true"  -> TRUE
      [] x.t = "num"   -> x.v # 0
      [] x.t = "str"   -> Len(x.v) > 0
      [] x.t = "arr"   -> Len(x.v) > 0
      [] x.t = "obj"   -> DOMAIN x.v # {}

----------------------------------------------------------------------------
(* json.loads on a token sequence *)

ParseFail == [ok |-> FALSE, val |-> JNull, next |-> 0]
ParseOk(val, next) == [ok |-> TRUE, val |-> val, next |-> next]

RECURSIVE SkipWs(_, _)
SkipWs(s, i) ==
    IF i <= Len(s) /\ IsWs(s[i]) THEN SkipWs(s, i + 1) ELSE i

\* index of the first token c at or after i, 0 when there is none
RECURSIVE IndexFrom(_, _, _)
IndexFrom(s, c, i) ==
    IF i > Len(s) THEN 0
    ELSE IF s[i] = c THEN i
    ELSE IndexFrom(s, c, i + 1)

\* a string literal whose opening quote is at i
ParseString(s, i) ==
    LET j == IndexFrom(s, Q, i + 1) IN
    IF j = 0 THEN ParseFail
    ELSE IF \E k \in (i + 1)..(j - 1) : s[k] = NL THEN ParseFail
    ELSE ParseOk(JStr(SubSeq(s, i + 1, j - 1)), j + 1)

\* a run of digits starting at i; a leading zero stands alone
RECURSIVE ParseDigits(_, _, _)
ParseDigits(s, i, acc) ==
    IF i <= Len(s) /\ s[i] \in Digits
    THEN ParseDigits(s, i + 1, 10 * acc + DigitVal(s[i]))
    ELSE ParseOk(JNum(acc), i)

ParseNumber(s, i) ==
    IF s[i] = "0" THEN ParseOk(JNum(0), i + 1)
    ELSE ParseDigits(s, i, 0)

RECURSIVE ParseValue(_, _), ParseMembers(_, _, _), ParseElements(_, _, _)

\* the value starting at i (no leading blanks)
ParseValue(s, i) ==
    IF i > Len(s) THEN ParseFail
    ELSE IF s[i] = LB THEN
        LET j == SkipWs(s, i + 1) IN
        IF j <= Len(s) /\ s[j] = RB THEN ParseOk(EmptyDict, j + 1)
        ELSE ParseMembers(s, j, EmptyDict)
    ELSE IF s[i] = LSQ THEN
        LET j == SkipWs(s, i + 1) IN
        IF j <= Len(s) /\ s[j] = RSQ THEN ParseOk(JArr(<<>>), j + 1)
        ELSE ParseElements(s, j, <<>>)
    ELSE IF s[i] = Q THEN ParseString(s, i)
    ELSE IF s[i] \in Digits THEN ParseNumber(s, i)
    ELSE IF s[i] = "true" THEN ParseOk(JTrue, i + 1)
    ELSE IF s[i] = "false" THEN ParseOk(JFalse, i + 1)
    ELSE IF s[i] = "null" THEN ParseOk(JNull, i + 1)
    ELSE ParseFail

\* "key" : value (, "key" : value)* }   with the first key at i
ParseMembers(s, i, acc) ==
    IF i > Len(s) \/ s[i] # Q THEN ParseFail
    ELSE LET k == ParseString(s, i) IN
    IF ~k.ok THEN ParseFail
    ELSE LET c == SkipWs(s, k.next) IN
    IF c > Len(s) \/ s[c] # COLON THEN ParseFail
    ELSE LET val == ParseValue(s, SkipWs(s, c + 1)) IN
    IF ~val.ok THEN ParseFail
    ELSE LET e   == SkipWs(s, val.next)
             new == Put(acc, k.val.v, val.val) IN
    IF e > Len(s) THEN ParseFail
    ELSE IF s[e] = RB THEN ParseOk(new, e + 1)
    ELSE IF s[e] = COMMA THEN ParseMembers(s, SkipWs(s, e + 1), new)
    ELSE ParseFail

\* value (, value)* ]   with the first value at i
ParseElements(s, i, acc) ==
    LET val == ParseValue(s, i) IN
    IF ~val.ok THEN ParseFail
    ELSE LET e   == SkipWs(s, val.next)
             new == Append(acc, val.val) IN
    IF e > Len(s) THEN ParseFail
    ELSE IF s[e] = RSQ THEN ParseOk(JArr(new), e + 1)
    ELSE IF s[e] = COMMA THEN ParseElements(s, SkipWs(s, e + 1), new)
    ELSE ParseFail

\* json.loads(s): ok = FALSE stands for json.JSONDecodeError
json_loads(s) ==
    LET r == ParseValue(s, SkipWs(s, 1)) IN
    IF r.ok /\ SkipWs(s, r.next) > Len(s)
    THEN [ok |-> TRUE, val |-> r.val]
    ELSE [ok |-> FALSE, val |-> JNull]

----------------------------------------------------------------------------
(* Python string operations used by parse_sse_response *)

RECURSIVE LastNonWs(_, _)
LastNonWs(s, i) ==
    IF i >= 1 /\ IsWs(s[i]) THEN LastNonWs(s, i - 1) ELSE i

\* s.strip()
Strip(s) ==
    LET a == SkipWs(s, 1) IN
    IF a > Len(s) THEN <<>> ELSE SubSeq(s, a, LastNonWs(s, Len(s)))

\* s.split(sep)
RECURSIVE Split(_, _)
Split(s, sep) ==
    LET j == IndexFrom(s, sep, 1) IN
    IF j = 0 THEN <<s>>
    ELSE <<SubSeq(s, 1, j - 1)>> \o Split(SubSeq(s, j + 1, Len(s)), sep)

\* s.startswith(c)
StartsWith(s, c) == Len(s) >= 1 /\ s[1] = c

\* s.replace(c, '', 1)
RemoveFirst(s, c) ==
    LET j == IndexFrom(s, c, 1) IN
    IF j = 0 THEN s ELSE SubSeq(s, 1, j - 1) \o SubSeq(s, j + 1, Len(s))

----------------------------------------------------------------------------
(* parse_sse_response *)

K_delta   == <<"delta">>
K_text    == <<"text">>
K_usage   == <<"usage">>
K_message == <<"message">>
K_content == <<"content">>
K_model   == <<"model">>
K_input_tokens  == <<"input_tokens">>
K_output_tokens == <<"output_tokens">>
K_cache_read    == <<"cache_read_input_tokens">>
K_cache_create  == <<"cache_creation_input_tokens">>

T_content_block_delta == <<"content_block_delta">>
T_message_delta       == <<"message_delta">>
T_message_start       == <<"message_start">>

\* events = [], full_text = "", usage = {}.  alias is the index of the event
\* whose data['usage'] is the very dict `usage` is bound to (0: none).
SseInit == [events |-> <<>>, full_text |-> <<>>, usage |-> EmptyDict, alias |-> 0]

\* the brace scan: json_end, 0 when the count never returns to zero
RECURSIVE JsonEnd(_, _, _)
JsonEnd(json_str, i, brace_count) ==
    IF i > Len(json_str) THEN 0
    ELSE IF json_str[i] = LB THEN JsonEnd(json_str, i + 1, brace_count + 1)
    ELSE IF json_str[i] = RB THEN
        IF brace_count - 1 = 0 THEN i
        ELSE JsonEnd(json_str, i + 1, brace_count - 1)
    ELSE JsonEnd(json_str, i + 1, brace_count)

\* if event_type == 'content_block_delta': full_text += data.get('delta', {}).get('text', '')
\* An exception leaves the state as it is (except: pass).
ExtractText(st, data) ==
    IF ~IsDict(data) THEN st
    ELSE LET delta == Get(data, K_delta, EmptyDict) IN
    IF ~IsDict(delta) THEN st
    ELSE LET text == Get(delta, K_text, JStr(<<>>)) IN
    IF text.t # "str" THEN st
    ELSE [st EXCEPT !.full_text = @ \o text.v]

\* if event_type == 'message_delta': usage = data.get('usage', {})
MessageDeltaUsage(st, data) ==
    IF ~IsDict(data) THEN st
    ELSE [st EXCEPT !.usage = Get(data, K_usage, EmptyDict),
                    !.alias = IF K_usage \in DOMAIN data.v THEN Len(st.events) ELSE 0]

\* dict.update: the keys of b are set in a
Update(a, b) ==
    JObj([k \in (DOMAIN a.v) \cup (DOMAIN b.v) |->
            IF k \in DOMAIN b.v THEN b.v[k] ELSE a.v[k]])

\* elif event_type == 'message_start': usage.update(message.usage) when it is
\* not empty.  usage.update also changes the event data it is bound to.
\* (update with something that is no dict is taken to raise.)
MessageStartUsage(st, data) ==
    IF ~IsDict(data) THEN st
    ELSE LET message == Get(data, K_message, EmptyDict) IN
    IF ~IsDict(message) THEN st
    ELSE LET msg_usage == Get(message, K_usage, EmptyDict) IN
    IF ~Truthy(msg_usage) THEN st
    ELSE IF ~IsDict(st.usage) \/ ~IsDict(msg_usage) THEN st
    ELSE LET merged == Update(st.usage, msg_usage) IN
         [st EXCEPT !.usage = merged,
                    !.events = IF st.alias = 0 THEN @
                               ELSE [@ EXCEPT ![st.alias].data =
                                        Put(@, K_usage, merged)]]

\* lines 48-62: the event is appended, then text and usage are taken from it
HandleEvent(st, event_type, data) ==
    LET st1 == [st EXCEPT !.events = Append(@, [type |-> event_type, data |-> data])]
        st2 == IF event_type = T_content_block_delta
               THEN ExtractText(st1, data) ELSE st1
    IN  IF event_type = T_message_delta THEN MessageDeltaUsage(st2, data)
        ELSE IF event_type = T_message_start THEN MessageStartUsage(st2, data)
        ELSE st2

\* json.loads(json_str[:json_end]) inside try/except
DecodeData(st, event_type, json_str, json_end) ==
    LET r == json_loads(SubSeq(json_str, 1, json_end)) IN
    IF ~r.ok THEN st ELSE HandleEvent(st, event_type, r.val)

\* the body of the loop over parts
StepPart(st, part) ==
    LET p == Strip(part) IN
    IF Len(p) = 0 THEN st
    ELSE LET n == IndexFrom(p, NL, 1) IN
    IF n = 0 THEN st
    ELSE LET event_type == Strip(SubSeq(p, 1, n - 1))
             data_part  == SubSeq(p, n + 1, Len(p)) IN
    IF ~StartsWith(data_part, DATA) THEN st
    ELSE LET json_str == Strip(RemoveFirst(data_part, DATA))
             json_end == JsonEnd(json_str, 1, 0) IN
    IF json_end > 0 THEN DecodeData(st, event_type, json_str, json_end)
    ELSE st

RECURSIVE FoldParts(_, _, _)
FoldParts(st, parts, i) ==
    IF i > Len(parts) THEN st
    ELSE FoldParts(StepPart(st, parts[i]), parts, i + 1)

\* parse_sse_response(sse_text): full_text, usage, events
parse_sse_response(text) == FoldParts(SseInit, Split(text, EVENT), 1)

----------------------------------------------------------------------------
(* analyze_conversations, first pass: one decoded line (log) at a time.    *)
(* A decoded line, a conversation entry and the mapping are Python dicts.  *)

K_fields       == <<"fields">>
K_span         == <<"span">>
K_event_type   == <<"event_type">>
K_request_id   == <<"request_id">>
K_body         == <<"body">>
K_streaming    == <<"streaming">>
K_api_key_name == <<"api_key_name">>
K_timestamp    == <<"timestamp">>
K_level        == <<"level">>
K_request       == <<"request">>
K_response      == <<"response">>
K_api_key       == <<"api_key">>
K_response_raw  == <<"response_raw">>
K_response_text == <<"response_text">>
K_parse_error   == <<"parse_error">>

E_request_body  == JStr(<<"request_body">>)
E_response_body == JStr(<<"response_body">>)

\* defaultdict(lambda: {'request': None, 'response': None, 'timestamp': None})
DefaultEntry ==
    JObj(K_request :> JNull @@ K_response :> JNull @@ K_timestamp :> JNull)

\* conversations[request_id], created on first use
Entry(convs, request_id) == Get(convs, request_id, DefaultEntry)

\* conversations[request_id][key] = value
SetField(convs, request_id, key, value) ==
    Put(convs, request_id, Put(Entry(convs, request_id), key, value))

\* the four assignments of lines 97-100
RequestFields(convs, line, request_id, body) ==
    SetField(SetField(SetField(SetField(convs,
        request_id, K_request, body),
        request_id, K_model, Get(line.v[K_span], K_model, JNull)),
        request_id, K_api_key, Get(line.v[K_span], K_api_key_name, JNull)),
        request_id, K_timestamp, Get(line, K_timestamp, JNull))

\* json.loads(log['fields']['body']): ok = FALSE when it raises
DecodedBody(line) ==
    IF K_body \notin DOMAIN line.v[K_fields].v THEN [ok |-> FALSE, val |-> JNull]
    ELSE IF line.v[K_fields].v[K_body].t # "str" THEN [ok |-> FALSE, val |-> JNull]
    ELSE json_loads(line.v[K_fields].v[K_body].v)

RequestDecoded(convs, line, request_id, body) ==
    IF ~body.ok THEN convs
    ELSE RequestFields(convs, line, request_id, body.val)

\* A request handler that assigns a new entry, as analyze_detailed_logs does,
\* where analyze_conversations sets four keys of the entry it finds.
RequestBodyReplaced(convs, line, request_id) ==
    RequestDecoded(Put(convs, request_id, DefaultEntry), line, request_id,
                   DecodedBody(line))

\* lines 95-102: a request_body record
RequestBodyStored(convs, line, request_id) ==
    RequestDecoded(convs, line, request_id, DecodedBody(line))

\* text += content['text'] for the dict elements of content that have 'text'
RECURSIVE ContentText(_, _, _)
ContentText(content, i, text) ==
    IF i > Len(content) THEN [raised |-> FALSE, text |-> text]
    ELSE LET c == content[i] IN
    IF c.t = "obj" /\ K_text \in DOMAIN c.v
    THEN IF c.v[K_text].t # "str" THEN [raised |-> TRUE, text |-> text]
         ELSE ContentText(content, i + 1, text \o c.v[K_text].v)
    ELSE ContentText(content, i + 1, text)

\* lines 120-125: the text of a response that is one JSON document
DocumentText(resp_json) ==
    IF K_content \in DOMAIN resp_json.v /\ Truthy(resp_json.v[K_content])
    THEN LET content == resp_json.v[K_content] IN
         IF content.t = "arr" THEN ContentText(content.v, 1, <<>>)
         ELSE IF content.t \in {"str", "obj"} THEN [raised |-> FALSE, text |-> <<>>]
         ELSE [raised |-> TRUE, text |-> <<>>]
    ELSE [raised |-> FALSE, text |-> <<>>]

\* lines 113-127: what the response sets before it ends or raises.
\* set: the keys assigned, in text and usage; raised: an exception ended it.
Interpreted(text, usage) ==
    [raised |-> FALSE, set |-> {K_response_text, K_usage}, text |-> text, usage |-> usage]
Raised(set, text) ==
    [raised |-> TRUE, set |-> set, text |-> text, usage |-> EmptyDict]

\* lines 115-117, r being what parse_sse_response returned
InterpretStream(r) == Interpreted(r.full_text, r.usage)

\* lines 121-127, d being the text of the document resp_json
DocumentUsage(resp_json, d) ==
    IF d.raised THEN Raised({}, <<>>)
    ELSE Interpreted(d.text, Get(resp_json, K_usage, EmptyDict))

\* lines 120-127, r being what json.loads returned
InterpretDocument(r) ==
    IF ~r.ok THEN Raised({}, <<>>)
    ELSE IF r.val.t = "obj" THEN DocumentUsage(r.val, DocumentText(r.val))
    ELSE IF r.val.t = "arr" THEN Raised({K_response_text}, <<>>)
    ELSE IF r.val.t = "str" /\ \A i \in 1..Len(r.val.v) : r.val.v[i] # "content"
         THEN Raised({K_response_text}, <<>>)
    ELSE Raised({}, <<>>)

Interpret(body_text, streaming) ==
    IF body_text.t # "str" THEN Raised({}, <<>>)
    ELSE IF Truthy(streaming) THEN InterpretStream(parse_sse_response(body_text.v))
    ELSE InterpretDocument(json_loads(body_text.v))

\* A response handler that adds the new counts to the ones it holds.
UsageAdded(convs, request_id, usage) ==
    SetField(convs, request_id, K_usage,
             JObj([k \in (DOMAIN Get(Entry(convs, request_id), K_usage, EmptyDict).v)
                            \cup (DOMAIN usage.v) |->
                     JNum(Get(Get(Entry(convs, request_id), K_usage, EmptyDict),
                              k, JNum(0)).v
                          + Get(usage, k, JNum(0)).v)]))

\* conversations[request_id]['usage'] = usage
UsageStored(convs, request_id, usage) == SetField(convs, request_id, K_usage, usage)

\* conversations[request_id]['response_text'] = ..., when the parse came to it
TextStored(convs, request_id, r) ==
    IF K_response_text \in r.set
    THEN SetField(convs, request_id, K_response_text, JStr(r.text))
    ELSE convs

UsageStoredIfSet(convs, request_id, r) ==
    IF K_usage \in r.set THEN UsageStored(convs, request_id, r.usage) ELSE convs

\* conversations[request_id]['parse_error'] = str(e)
ParseErrorStored(convs, request_id) ==
    SetField(convs, request_id, K_parse_error, JStr(<<"error">>))

ParseErrorStoredIfRaised(convs, request_id, r) ==
    IF r.raised THEN ParseErrorStored(convs, request_id) ELSE convs

\* lines 113-130, r being what the parse of the response set
ResponseStored(convs, request_id, r) ==
    ParseErrorStoredIfRaised(
        UsageStoredIfSet(TextStored(convs, request_id, r), request_id, r),
        request_id, r)

\* lines 105-130: a response_body record
ResponseBodyStored(convs, line, request_id) ==
    IF K_body \notin DOMAIN line.v[K_fields].v
    THEN ParseErrorStored(convs, request_id)
    ELSE ResponseStored(
            SetField(SetField(convs,
                request_id, K_response_raw, line.v[K_fields].v[K_body]),
                request_id, K_streaming, Get(line.v[K_fields], K_streaming, JFalse)),
            request_id,
            Interpret(line.v[K_fields].v[K_body],
                      Get(line.v[K_fields], K_streaming, JFalse)))

\* lines 94-130, for a line with an event_type and a request_id
LineRouted(convs, line, event_type, request_id) ==
    IF event_type = E_request_body
    THEN RequestBodyStored(convs, line, request_id)
    ELSE IF event_type = E_response_body
    THEN ResponseBodyStored(convs, line, request_id)
    ELSE convs

\* lines 81-133: the body of the loop over the lines of the file
ConversationsStep(convs, line) ==
    IF K_fields \notin DOMAIN line.v THEN convs
    ELSE IF ~Truthy(Get(line.v[K_fields], K_event_type, JNull)) THEN convs
    ELSE IF ~Truthy(Get(Get(line, K_span, EmptyDict), K_request_id, JNull)) THEN convs
    ELSE LineRouted(convs, line,
                    Get(line.v[K_fields], K_event_type, JNull),
                    Get(Get(line, K_span, EmptyDict), K_request_id, JNull))

----------------------------------------------------------------------------
(* analyze_conversations, second pass: the complete conversations and the  *)
(* token totals.                                                           *)

\* {k: v ... if v['request'] is not None and 'response_text' in v}
IsComplete(v) == v.v[K_request] # JNull /\ K_response_text \in DOMAIN v.v

CompleteIds(convs) == {k \in DOMAIN convs.v : IsComplete(convs.v[k])}

\* conv.get('usage', {}).get(key, 0)
UsageCount(conv, key) == Get(Get(conv, K_usage, EmptyDict), key, JNum(0))

\* the sum raises unless every usage is a dict and every count a number
Summable(convs, ids, key) ==
    \A k \in ids : /\ IsDict(Get(convs.v[k], K_usage, EmptyDict))
                   /\ UsageCount(convs.v[k], key).t = "num"

RECURSIVE TokenTotal(_, _, _)
TokenTotal(convs, ids, key) ==
    IF ids = {} THEN 0
    ELSE LET k == CHOOSE k \in ids : TRUE IN
         UsageCount(convs.v[k], key).v + TokenTotal(convs, ids \ {k}, key)

\* The ratio without the guard of its divisor.
CacheRatioUnguarded(total_cache_read, total_input) ==
    IF total_cache_read > 0
    THEN [shown |-> TRUE, num |-> total_cache_read * 100, den |-> total_input]
    ELSE [shown |-> FALSE, num |-> 0, den |-> 1]

\* lines 280-281: cache_ratio = (total_cache_read / (total_input or 1)) * 100,
\* kept as the fraction num/den; it is computed when total_cache_read > 0.
CacheRatio(total_cache_read, total_input) ==
    IF total_cache_read > 0
    THEN [shown |-> TRUE, num |-> total_cache_read * 100,
          den |-> IF total_input # 0 THEN total_input ELSE 1]
    ELSE [shown |-> FALSE, num |-> 0, den |-> 1]

NoSummary ==
    [raised |-> FALSE, complete |-> {}, total_input |-> 0, total_output |-> 0,
     total_cache_read |-> 0, total_cache_create |-> 0,
     cache_ratio |-> [shown |-> FALSE, num |-> 0, den |-> 1]]

Summarized(convs) ==
    LET ids == CompleteIds(convs) IN
    IF \E key \in {K_input_tokens, K_output_tokens, K_cache_read, K_cache_create} :
          ~Summable(convs, ids, key)
    THEN [NoSummary EXCEPT !.raised = TRUE, !.complete = ids]
    ELSE LET total_input      == TokenTotal(convs, ids, K_input_tokens)
             total_cache_read == TokenTotal(convs, ids, K_cache_read)
         IN  [raised |-> FALSE, complete |-> ids,
              total_input |-> total_input,
              total_output |-> TokenTotal(convs, ids, K_output_tokens),
              total_cache_read |-> total_cache_read,
              total_cache_create |-> TokenTotal(convs, ids, K_cache_create),
              cache_ratio |-> CacheRatio(total_cache_read, total_input)]

----------------------------------------------------------------------------
(* analyze_detailed_logs (log_analysis_report.py), the loop over the lines *)

K_target  == <<"target">>
S_unknown == JStr(<<"unknown">>)

\* Counter()[key] += 1
Inc(counter, key) ==
    [k \in (DOMAIN counter) \cup {key} |->
        IF k = key THEN (IF key \in DOMAIN counter THEN counter[key] ELSE 0) + 1
        ELSE counter[k]]

RECURSIVE CounterTotal(_, _)
CounterTotal(counter, keys) ==
    IF keys = {} THEN 0
    ELSE LET k == CHOOSE k \in keys : TRUE IN
         counter[k] + CounterTotal(counter, keys \ {k})

Hashable(x) == x.t \notin {"obj", "arr"}

DetInit ==
    [conversations |-> EmptyDict, request_bodies |-> <<>>, errors |-> <<>>,
     total_requests |-> 0, models |-> <<>>, api_keys |-> <<>>, error_counts |-> <<>>]

\* lines 31-38
ErrorCounted(d, line) ==
    IF Get(line, K_level, JNull) = JStr(<<"ERROR">>)
    THEN LET error_msg == Get(Get(line, K_fields, EmptyDict), K_message, JStr(<<>>)) IN
         [d EXCEPT !.errors = Append(@, [time    |-> Get(line, K_timestamp, JNull),
                                         message |-> error_msg,
                                         target  |-> Get(line, K_target, JNull)]),
                   !.error_counts = Inc(@, error_msg)]
    ELSE d

\* lines 53-64
ConversationAssigned(d, line, request_id, body, model, api_key) ==
    [d EXCEPT !.conversations =
                  Put(@, request_id,
                      JObj(K_model :> model @@ K_api_key :> api_key
                           @@ K_request :> body
                           @@ K_timestamp :> Get(line, K_timestamp, JNull))),
              !.request_bodies =
                  Append(@, [request_id |-> request_id, model |-> model,
                             body |-> body])]

\* lines 50-64
ApiKeyCounted(d, line, request_id, body, model, api_key) ==
    IF ~Hashable(api_key) THEN d
    ELSE ConversationAssigned([d EXCEPT !.api_keys = Inc(@, api_key)],
                              line, request_id, body, model, api_key)

\* lines 47-64
ModelCounted(d, line, request_id, body, model) ==
    IF ~Hashable(model) THEN d
    ELSE ApiKeyCounted([d EXCEPT !.models = Inc(@, model)], line, request_id, body,
                       model, Get(Get(line, K_span, EmptyDict), K_api_key_name, S_unknown))

\* lines 46-66, body being what json.loads returned
BodyCounted(d, line, request_id, body) ==
    IF ~body.ok \/ ~IsDict(body.val) THEN d
    ELSE ModelCounted(d, line, request_id, body.val, Get(body.val, K_model, S_unknown))

\* lines 42-66
RequestCounted(d, line) ==
    BodyCounted([d EXCEPT !.total_requests = @ + 1], line,
                Get(Get(line, K_span, EmptyDict), K_request_id, JNull),
                DecodedBody(line))

\* lines 28-66: the body of the loop over the lines of the file
DetailedStep(d, line) ==
    IF Get(Get(line, K_fields, EmptyDict), K_event_type, JNull) = E_request_body
    THEN RequestCounted(ErrorCounted(d, line), line)
    ELSE ErrorCounted(d, line)

----------------------------------------------------------------------------
(* analyze_detailed_logs, after the loop: the details of the conversations *)
(* and the interaction patterns.  The requests read here carry no          *)
(* 'messages'.                                                             *)

K_stream        == <<"stream">>
K_tools         == <<"tools">>
K_system        == <<"system">>
K_cache_control == <<"cache_control">>
K_output_config == <<"output_config">>
K_format        == <<"format">>
K_type          == <<"type">>
K_name          == <<"name">>
S_json_schema   == JStr(<<"json_schema">>)

\* x[:n] succeeds: lists and strings
Sliceable(x) == x.t \in {"arr", "str"}

\* lines 110-120: a system message is printed; .get on a cache_control that
\* is no dict and len() of a text that has no length raise
SystemMessageRaised(sys_msg) ==
    /\ sys_msg.t = "obj"
    /\ K_text \in DOMAIN sys_msg.v
    /\ \/ Get(sys_msg, K_cache_control, EmptyDict).t # "obj"
       \/ sys_msg.v[K_text].t \notin {"str", "arr", "obj"}

\* lines 108-120
SystemPrinted(req) ==
    IF ~Truthy(Get(req, K_system, JNull)) THEN [raised |-> FALSE]
    ELSE IF ~Sliceable(req.v[K_system]) THEN [raised |-> TRUE]
    ELSE IF req.v[K_system].t = "str" THEN [raised |-> FALSE]
    ELSE [raised |-> \E i \in 1..Len(req.v[K_system].v) :
                        i <= 3 /\ SystemMessageRaised(req.v[K_system].v[i])]

\* lines 155-164: the number of tools, and their names when they are at most 5
ToolsPrinted(req) ==
    IF ~Truthy(Get(req, K_tools, JNull)) THEN [raised |-> FALSE]
    ELSE IF req.v[K_tools].t \in {"num", "true"} THEN [raised |-> TRUE]
    ELSE IF req.v[K_tools].t = "obj"
         THEN [raised |-> Cardinality(DOMAIN req.v[K_tools].v) <= 5]
    ELSE IF req.v[K_tools].t = "str" THEN [raised |-> Len(req.v[K_tools].v) <= 5]
    ELSE [raised |-> /\ Len(req.v[K_tools].v) <= 5
                     /\ \E i \in 1..Len(req.v[K_tools].v) :
                           \/ req.v[K_tools].v[i].t # "obj"
                           \/ Get(req.v[K_tools].v[i], K_name, S_unknown).t # "str"]

\* req['output_config'].get('format', {}).get('type') raises (lines 166-168,
\* and again lines 203-204)
OutputConfigRaised(req) ==
    /\ K_output_config \in DOMAIN req.v
    /\ \/ req.v[K_output_config].t # "obj"
       \/ Get(req.v[K_output_config], K_format, EmptyDict).t # "obj"

\* lines 95-168: the details of one conversation are printed, or it raises
DetailRaised(req) ==
    \/ SystemPrinted(req).raised
    \/ ToolsPrinted(req).raised
    \/ OutputConfigRaised(req)

\* lines 184-185: if req.get('stream')
IsStreaming(req) == Truthy(Get(req, K_stream, JNull))

\* lines 187-189: if req.get('tools')
UsesTools(req) == Truthy(Get(req, K_tools, JNull))

\* lines 191-192: if req.get('system')
HasSystemPrompt(req) == Truthy(Get(req, K_system, JNull))

\* lines 195-196: for sys_msg in req['system'] raises on a number or true
SystemNotIterable(req) ==
    HasSystemPrompt(req) /\ req.v[K_system].t \in {"num", "true"}

\* lines 195-200: some element of req['system'] is a dict with a truthy
\* cache_control (the elements of a string and the keys of a dict are strings)
UsesCache(req) ==
    /\ HasSystemPrompt(req)
    /\ req.v[K_system].t = "arr"
    /\ \E i \in 1..Len(req.v[K_system].v) :
          /\ req.v[K_system].v[i].t = "obj"
          /\ Truthy(Get(req.v[K_system].v[i], K_cache_control, JNull))

\* lines 203-206
StructuredOutput(req) ==
    /\ K_output_config \in DOMAIN req.v
    /\ ~OutputConfigRaised(req)
    /\ Get(Get(req.v[K_output_config], K_format, EmptyDict), K_type, JNull)
          = S_json_schema

\* the request of the conversation stored under id
RequestOf(convs, id) == convs.v[id].v[K_request]

NoInteraction ==
    [error |-> "none", total |-> 0, streaming_count |-> 0, has_tools |-> 0,
     has_system_prompt |-> 0, has_cache |-> 0, structured |-> 0]

\* line 211: streaming_count/len(conversations)*100, kept as the fraction
\* num/den; the division raises ZeroDivisionError when there is no conversation
StreamingRatio(streaming_count, total) ==
    IF total = 0 THEN [raised |-> TRUE, num |-> 0, den |-> 0]
    ELSE [raised |-> FALSE, num |-> streaming_count * 100, den |-> total]

\* lines 182-206: the conversations counted by each counter of the loop
StreamingIds(convs) == {id \in DOMAIN convs.v : IsStreaming(RequestOf(convs, id))}
ToolIds(convs)      == {id \in DOMAIN convs.v : UsesTools(RequestOf(convs, id))}
SystemIds(convs)    == {id \in DOMAIN convs.v : HasSystemPrompt(RequestOf(convs, id))}
CacheIds(convs)     == {id \in DOMAIN convs.v : UsesCache(RequestOf(convs, id))}
StructuredIds(convs) ==
    {id \in DOMAIN convs.v : StructuredOutput(RequestOf(convs, id))}

\* lines 95-214: error is "none" when the report is printed to its end
InteractionStats(convs) ==
    IF \E id \in DOMAIN convs.v :
          \/ DetailRaised(RequestOf(convs, id))
          \/ SystemNotIterable(RequestOf(convs, id))
    THEN [NoInteraction EXCEPT !.error = "raised",
                               !.total = Cardinality(DOMAIN convs.v)]
    ELSE IF StreamingRatio(Cardinality(StreamingIds(convs)),
                           Cardinality(DOMAIN convs.v)).raised
    THEN [NoInteraction EXCEPT !.error = "ZeroDivisionError"]
    ELSE [error |-> "none", total |-> Cardinality(DOMAIN convs.v),
          streaming_count   |-> Cardinality(StreamingIds(convs)),
          has_tools         |-> Cardinality(ToolIds(convs)),
          has_system_prompt |-> Cardinality(SystemIds(convs)),
          has_cache         |-> Cardinality(CacheIds(convs)),
          structured        |-> Cardinality(StructuredIds(convs))]

----------------------------------------------------------------------------
(* The writer's side: how a gateway writes the text the scripts read.     *)

RECURSIVE RenderJSON(_), RenderMembers(_, _), RenderElements(_, _)

\* json.dumps without blanks; the keys of an object in a fixed order
RenderJSON(x) ==
    CASE x.t = "null"  -> <<"null">>
      [] x.t = "true"  -> <<"true">>
      [] x.t = "false" -> <<"false">>
      [] x.t = "num"   -> <<CHOOSE d \in Digits : DigitVal(d) = x.v>>
      [] x.t = "str"   -> <<Q>> \o x.v \o <<Q>>
      [] x.t = "arr"   -> <<LSQ>> \o RenderElements(x.v, 1) \o <<RSQ>>
      [] x.t = "obj"   -> <<LB>> \o RenderMembers(x.v, DOMAIN x.v) \o <<RB>>

RenderMembers(f, keys) ==
    IF keys = {} THEN <<>>
    ELSE LET k == CHOOSE k \in keys : TRUE IN
         <<Q>> \o k \o <<Q, COLON>> \o RenderJSON(f[k])
            \o (IF keys = {k} THEN <<>> ELSE <<COMMA>>)
            \o RenderMembers(f, keys \ {k})

RenderElements(a, i) ==
    IF i > Len(a) THEN <<>>
    ELSE RenderJSON(a[i]) \o (IF i = Len(a) THEN <<>> ELSE <<COMMA>>)
            \o RenderElements(a, i + 1)

\* An object with one key, with two keys
O1(k, x) == JObj(k :> x)
O2(k1, x1, k2, x2) == JObj(k1 :> x1 @@ k2 :> x2)

\* One block of an event stream: its event kind, its payload, and how it is
\* written: "ok" in full; "badjson" with the payload inside one more pair of
\* braces; "unbalanced" without the closing brace; "noprefix" with the
\* payload not introduced by data:; "nodata" with no data section at all;
\* "trailing" in full, with more text after the object on the data line.
Block(kind, form, data) == [kind |-> kind, form |-> form, data |-> data]

RenderBlock(b) ==
    LET head == <<EVENT, SP, b.kind, NL>>
        json == RenderJSON(b.data)
    IN  CASE b.form = "ok"         -> head \o <<DATA, SP>> \o json \o <<NL, NL>>
          [] b.form = "badjson"    -> head \o <<DATA, SP, LB>> \o json \o <<RB, NL, NL>>
          [] b.form = "unbalanced" -> head \o <<DATA, SP>>
                                        \o SubSeq(json, 1, Len(json) - 1) \o <<NL, NL>>
          [] b.form = "noprefix"   -> head \o json \o <<NL, NL>>
          [] b.form = "nodata"     -> head \o <<NL>>
          [] b.form = "trailing"   -> head \o <<DATA, SP>> \o json
                                        \o <<SP, "junk", NL, NL>>

RECURSIVE RenderBlocks(_, _)
RenderBlocks(bs, i) ==
    IF i > Len(bs) THEN <<>> ELSE RenderBlock(bs[i]) \o RenderBlocks(bs, i + 1)

TextDelta(form, text) ==
    Block("content_block_delta", form, O1(K_delta, O1(K_text, JStr(text))))

B_start ==
    Block("message_start", "ok",
          O1(K_message, O1(K_usage, O2(K_input_tokens, JNum(5), K_cache_read, JNum(3)))))
B_usage ==
    Block("message_delta", "ok",
          O1(K_usage, O2(K_input_tokens, JNum(7), K_output_tokens, JNum(3))))
B_he    == TextDelta("ok", <<"he">>)
B_llo   == TextDelta("ok", <<"llo">>)
B_brace == TextDelta("ok", <<"a", RB, "b">>)
B_trail == TextDelta("trailing", <<"tt">>)
B_ping  == Block("ping", "ok", O1(<<"type">>, JStr(<<"ping">>)))

BlockSet ==
    { B_start, B_usage, B_he, B_llo, B_brace, B_trail, B_ping,
      TextDelta("badjson", <<"zz">>),
      Block("message_delta", "unbalanced", O1(K_usage, O1(K_output_tokens, JNum(9)))),
      TextDelta("nodata", <<"yy">>),
      Block("message_start", "noprefix",
            O1(K_message, O1(K_usage, O1(K_input_tokens, JNum(8))))) }

MaxBlocks == 3

BlockSeqs == UNION { [1..n -> BlockSet] : n \in 0..MaxBlocks }

----------------------------------------------------------------------------
(* The lines of the log file, decoded *)

Str(w) == JStr(<<w>>)

Span(rid, model, key) ==
    JObj(K_request_id :> Str(rid) @@ K_model :> Str(model) @@ K_api_key_name :> Str(key))

RequestLine(span, body, ts) ==
    JObj(K_fields :> JObj(K_event_type :> E_request_body @@ K_body :> JStr(body))
         @@ K_span :> span @@ K_timestamp :> Str(ts))

ResponseLine(rid, body, streaming) ==
    JObj(K_fields :> JObj(K_event_type :> E_response_body @@ K_body :> JStr(body)
                          @@ K_streaming :> streaming)
         @@ K_span :> O1(K_request_id, Str(rid)) @@ K_timestamp :> Str("t9"))

ReqBody1   == RenderJSON(O1(K_model, Str("m1")))
ReqBody2   == RenderJSON(O2(K_model, Str("m2"), <<"stream">>, JTrue))
ReqBodyBad == SubSeq(ReqBody1, 1, Len(ReqBody1) - 1)
ReqBody3   ==
    RenderJSON(JObj(K_tools :> JArr(<<EmptyDict>>)
                    @@ K_system :> JArr(<<O1(K_cache_control, JTrue)>>)
                    @@ K_output_config :> O1(K_format, O1(K_type, S_json_schema))))

RespDoc1 ==
    RenderJSON(O2(K_content, JArr(<<O1(K_text, Str("hi"))>>),
                  K_usage, JObj(K_input_tokens :> JNum(5) @@ K_output_tokens :> JNum(2)
                                @@ K_cache_read :> JNum(4))))
RespDoc2 ==
    RenderJSON(O2(K_content, JArr(<<O1(K_text, Str("A")), O1(K_text, Str("B"))>>),
                  K_usage, O1(K_cache_read, JNum(7))))
RespDocBad == <<"oops">>

StreamBlocks    == <<B_start, B_he, B_llo, B_usage>>
StreamBody      == RenderBlocks(StreamBlocks, 1)
\* a stream cut in the middle of the payload of its third block
TruncatedBefore == <<B_start, B_he>>
StreamTruncated ==
    RenderBlocks(TruncatedBefore, 1)
        \o SubSeq(RenderBlock(B_llo), 1, Len(RenderBlock(B_llo)) - 5)

Ids == {"r1", "r2"}

DecodableRequests(rid) ==
    { RequestLine(Span(rid, "m1", "k1"), ReqBody1, "t1"),
      RequestLine(Span(rid, "m2", "k2"), ReqBody2, "t2") }

BadRequest(rid) == RequestLine(Span(rid, "m1", "k1"), ReqBodyBad, "t3")

TruncatedResponse(rid) == ResponseLine(rid, StreamTruncated, JTrue)
BadResponse(rid)       == ResponseLine(rid, RespDocBad, JFalse)

InterpretableResponses(rid) ==
    { ResponseLine(rid, RespDoc1, JFalse),
      ResponseLine(rid, RespDoc2, JFalse),
      ResponseLine(rid, StreamBody, JTrue) }

\* a request_body line whose span has no request_id
NoIdLine ==
    RequestLine(O2(K_model, Str("m1"), K_api_key_name, Str("k1")), ReqBody1, "t4")
\* a line with another event_type
OtherEventLine ==
    JObj(K_fields :> O2(K_event_type, Str("request_start"), K_body, JStr(ReqBody1))
         @@ K_span :> Span("r1", "m1", "k1"))
\* a line whose fields have no event_type (an error message)
NoEventTypeLine ==
    JObj(K_level :> Str("ERROR") @@ K_fields :> O1(K_message, Str("boom"))
         @@ K_span :> Span("r1", "m1", "k1") @@ K_target :> Str("gw"))
\* a line without fields
NoFieldsLine == O1(K_span, Span("r1", "m1", "k1"))

IgnoredLines == {NoIdLine, OtherEventLine, NoEventTypeLine, NoFieldsLine, BadRequest("r1")}

LineSet ==
    DecodableRequests("r1") \cup InterpretableResponses("r1")
      \cup {TruncatedResponse("r1"), BadResponse("r1")}
      \cup {RequestLine(Span("r2", "m1", "k1"), ReqBody1, "t1"),
            RequestLine(Span("r2", "m2", "k2"), ReqBody3, "t2"),
            ResponseLine("r2", RespDoc1, JFalse)}
      \cup IgnoredLines

MaxLines == 3

----------------------------------------------------------------------------
(* The two scripts run over the same file: every line read is handed to    *)
(* the loop body of each; at the end of the file the second pass runs.     *)

Init ==
    /\ log = <<>>
    /\ conversations = EmptyDict
    /\ det = DetInit
    /\ phase = "collect"
    /\ summary = NoSummary
    /\ interaction = NoInteraction
    /\ sse_blocks = <<>>
    /\ sse_text = <<>>
    /\ sse_i = 1
    /\ sse_st = SseInit

\* for line in f: ...
ReadLine ==
    /\ phase = "collect"
    /\ Len(log) < MaxLines
    /\ \E line \in LineSet :
          /\ log' = Append(log, line)
          /\ conversations' = ConversationsStep(conversations, line)
          /\ det' = DetailedStep(det, line)
    /\ UNCHANGED <<phase, summary, interaction, sse_text, sse_blocks, sse_i, sse_st>>

\* the end of the file: complete_conversations and the totals
Summarize ==
    /\ phase = "collect"
    /\ phase' = "done"
    /\ summary' = Summarized(conversations)
    /\ interaction' = InteractionStats(det.conversations)
    /\ UNCHANGED <<log, conversations, det, sse_text, sse_blocks, sse_i, sse_st>>

Next == ReadLine \/ Summarize

Spec == Init /\ [][Next]_vars

----------------------------------------------------------------------------
(* The decoder run on its own: one part of the split per step *)

sse_parts == Split(sse_text, EVENT)

InitDecoder ==
    /\ log = <<>>
    /\ conversations = EmptyDict
    /\ det = DetInit
    /\ phase = "collect"
    /\ summary = NoSummary
    /\ interaction = NoInteraction
    /\ sse_blocks \in BlockSeqs
    /\ sse_text = RenderBlocks(sse_blocks, 1)
    /\ sse_i = 1
    /\ sse_st = SseInit

\* for part in parts: ...
DecodePart ==
    /\ sse_i <= Len(sse_parts)
    /\ sse_st' = StepPart(sse_st, sse_parts[sse_i])
    /\ sse_i' = sse_i + 1
    /\ UNCHANGED <<log, conversations, det, phase, summary, interaction, sse_text, sse_blocks>>

\* return full_text, usage, events
sse_returned == sse_i > Len(sse_parts)

NextDecoder == DecodePart

SpecDecoder == InitDecoder /\ [][NextDecoder]_vars

----------------------------------------------------------------------------
(* What the lines read so far say, line by line *)

LineId(line) == Get(Get(line, K_span, EmptyDict), K_request_id, JNull)

LineEvent(line) == Get(Get(line, K_fields, EmptyDict), K_event_type, JNull)

IsRequestFor(line, rid) ==
    /\ LineEvent(line) = E_request_body
    /\ LineId(line) = Str(rid)
    /\ json_loads(line.v[K_fields].v[K_body].v).ok

IsResponseFor(line, rid) ==
    LineEvent(line) = E_response_body /\ LineId(line) = Str(rid)

ResponseOf(line) ==
    Interpret(line.v[K_fields].v[K_body], Get(line.v[K_fields], K_streaming, JFalse))

Positions == 1..Len(log)

SetMax(S) == CHOOSE x \in S : \A y \in S : y <= x

\* the usage of the last response of rid that yields one
LastUsage(rid) ==
    LET at == {i \in Positions : IsResponseFor(log[i], rid)
                                  /\ K_usage \in ResponseOf(log[i]).set} IN
    IF at = {} THEN EmptyDict ELSE ResponseOf(log[SetMax(at)]).usage

\* the ids with a decoded request and a response that yields a text
PairedIds ==
    {rid \in Ids : /\ \E i \in Positions : IsRequestFor(log[i], rid)
                   /\ \E j \in Positions : IsResponseFor(log[j], rid)
                                            /\ K_response_text \in ResponseOf(log[j]).set}

RECURSIVE LastUsageTotal(_, _)
LastUsageTotal(rids, key) ==
    IF rids = {} THEN 0
    ELSE LET rid == CHOOSE r \in rids : TRUE IN
         Get(LastUsage(rid), key, JNum(0)).v + LastUsageTotal(rids \ {rid}, key)

----------------------------------------------------------------------------
(* C1: a decodable request_body line and an interpretable response_body    *)
(* line of one request id, read in either order and with lines of other    *)
(* ids between them, leave one entry for the id, and it is the entry that  *)
(* reading the request and then the response alone leaves.                 *)
C1_OrderIndependent ==
    \A rid \in Ids : \A i, j \in Positions :
        ( /\ log[i] \in DecodableRequests(rid)
          /\ log[j] \in InterpretableResponses(rid)
          /\ \A k \in Positions \ {i, j} : LineId(log[k]) # Str(rid) )
        => /\ Str(rid) \in DOMAIN conversations.v
           /\ conversations.v[Str(rid)] =
                ConversationsStep(ConversationsStep(EmptyDict, log[i]), log[j]).v[Str(rid)]
           /\ conversations.v[Str(rid)].v[K_request] =
                json_loads(log[i].v[K_fields].v[K_body].v).val
           /\ conversations.v[Str(rid)].v[K_response_text] = JStr(ResponseOf(log[j]).text)
           /\ conversations.v[Str(rid)].v[K_usage] = ResponseOf(log[j]).usage

\* the response is read first, a line of another id next, the request last
C1_Witness ==
    \E i, j, k \in Positions :
        /\ i < j /\ j < k
        /\ log[i] \in InterpretableResponses("r1")
        /\ LineId(log[j]) = Str("r2")
        /\ log[k] \in DecodableRequests("r1")

Max(a, b) == IF a >= b THEN a ELSE b

(* C10, as amended: the cache hit ratio is computed when some cache-read   *)
(* token was counted, and is then the percentage                           *)
(* 100 * total_cache_read / max(total_input, 1): its divisor is never 0,   *)
(* and when the total input is 0 it is 100 * total_cache_read, not 0.      *)
C10_CacheRatio ==
    (phase = "done" /\ ~summary.raised) =>
        /\ summary.cache_ratio.shown <=> (summary.total_cache_read > 0)
        /\ summary.cache_ratio.den >= 1
        /\ summary.cache_ratio.shown =>
              /\ summary.cache_ratio.den = Max(summary.total_input, 1)
              /\ summary.cache_ratio.num = 100 * summary.total_cache_read
        /\ (summary.cache_ratio.shown /\ summary.total_input = 0) =>
              /\ summary.cache_ratio.den = 1
              /\ summary.cache_ratio.num > 0

\* no input token and some cache-read tokens were counted
C10_Witness ==
    /\ phase = "done"
    /\ summary.total_input = 0
    /\ summary.total_cache_read > 0
    /\ summary.cache_ratio.shown

\* C10 as stated: whenever the total input is 0 the ratio is 0
C10_ZeroInputZeroRatio ==
    (phase = "done" /\ summary.total_input = 0) => summary.cache_ratio.num = 0

----------------------------------------------------------------------------
(* What the blocks of a stream say, block by block *)

BlockIndexes == 1..Len(sse_blocks)

UsageKinds == {"message_start", "message_delta"}

\* the delta.text fragments of the content_block_delta blocks, in order
RECURSIVE DeltaTexts(_, _)
DeltaTexts(bs, i) ==
    IF i > Len(bs) THEN <<>>
    ELSE (IF bs[i].kind = "content_block_delta"
          THEN bs[i].data.v[K_delta].v[K_text].v ELSE <<>>) \o DeltaTexts(bs, i + 1)

WellFormed(b) == b.form \in {"ok", "trailing"}

StreamEvent(b) == [type |-> <<b.kind>>, data |-> b.data]

RECURSIVE StreamEvents(_, _)
StreamEvents(bs, i) ==
    IF i > Len(bs) THEN <<>>
    ELSE (IF WellFormed(bs[i]) THEN <<StreamEvent(bs[i])>> ELSE <<>>)
            \o StreamEvents(bs, i + 1)

StartUsage == B_start.data.v[K_message].v[K_usage].v
DeltaUsage == B_usage.data.v[K_usage].v

(* C2: in a stream whose usage payloads are one message_start followed by  *)
(* one message_delta, the final usage keeps every field of the            *)
(* message_start payload, with the message_delta value where both have it. *)
C2_StartOnlyFieldsPersist ==
    ( /\ sse_returned
      /\ \A i \in BlockIndexes : WellFormed(sse_blocks[i])
      /\ \E i, j \in BlockIndexes :
            /\ i < j
            /\ sse_blocks[i] = B_start
            /\ sse_blocks[j] = B_usage
            /\ \A k \in BlockIndexes \ {i, j} : sse_blocks[k].kind \notin UsageKinds )
    => /\ IsDict(sse_st.usage)
       /\ \A key \in DOMAIN StartUsage :
            /\ key \in DOMAIN sse_st.usage.v
            /\ sse_st.usage.v[key] =
                 IF key \in DOMAIN DeltaUsage THEN DeltaUsage[key] ELSE StartUsage[key]

(* C3: for a stream of well-formed blocks, the text returned is the        *)
(* concatenation, in order, of the delta.text of its content_block_delta   *)
(* blocks.                                                                 *)
C3_TextIsConcatenation ==
    ( /\ sse_returned
      /\ \A i \in BlockIndexes : WellFormed(sse_blocks[i]) )
    => sse_st.full_text = DeltaTexts(sse_blocks, 1)

(* C4: in a stream with a block that is not well formed, the events        *)
(* returned are the well-formed blocks in input order, and the text and    *)
(* the usage are those of the stream without the other blocks.             *)
C4_MalformedBlocksSkipped ==
    ( /\ sse_returned
      /\ \E i \in BlockIndexes : ~WellFormed(sse_blocks[i]) )
    => LET kept  == SelectSeq(sse_blocks, WellFormed)
           alone == parse_sse_response(RenderBlocks(kept, 1))
       IN  /\ sse_st.events = StreamEvents(sse_blocks, 1)
           /\ sse_st.full_text = alone.full_text
           /\ sse_st.usage = alone.usage

----------------------------------------------------------------------------
LastLine == log[Len(log)]

(* C5: once a streaming response cut in the middle of a block was read,    *)
(* the entry of its id holds the text and the usage of the blocks before   *)
(* the cut and is marked as not fully interpreted.                         *)
C5_TruncatedMarkedMalformed ==
    (Len(log) > 0 /\ LastLine = TruncatedResponse("r1")) =>
        LET entry  == conversations.v[Str("r1")]
            before == parse_sse_response(RenderBlocks(TruncatedBefore, 1))
        IN  /\ entry.v[K_response_text] = JStr(before.full_text)
            /\ entry.v[K_usage] = before.usage
            /\ K_parse_error \in DOMAIN entry.v

(* C6: an id with a decoded request and a response whose body cannot be    *)
(* parsed is marked and is one of the complete conversations.              *)
C6_BadResponseStillComplete ==
    phase = "done" =>
        \A rid \in Ids :
            ( /\ \E i \in Positions : log[i] \in DecodableRequests(rid)
              /\ \E j \in Positions : log[j] = BadResponse(rid) )
            => /\ K_parse_error \in DOMAIN conversations.v[Str(rid)].v
               /\ Str(rid) \in summary.complete

(* C7: a line without fields.event_type, without span.request_id, with     *)
(* another event_type, or a request_body line whose body does not decode,  *)
(* leaves the conversation mapping of each script as it was.               *)
C7_IgnoredLinesChangeNothing ==
    [][ (Len(log') = Len(log) + 1 /\ log'[Len(log')] \in IgnoredLines)
        => /\ conversations' = conversations
           /\ det'.conversations = det.conversations ]_vars

(* C8: the total of the per-model histogram and the total of the           *)
(* per-API-key histogram are the number of conversations holding a         *)
(* request.                                                                *)
C8_HistogramTotals ==
    /\ CounterTotal(det.models, DOMAIN det.models)
          = Cardinality(DOMAIN det.conversations.v)
    /\ CounterTotal(det.api_keys, DOMAIN det.api_keys)
          = Cardinality(DOMAIN det.conversations.v)

\* C11: once the report is made, the aggregation of the interaction
\* predicates and of the streaming ratio has reached no error, whatever
\* mapping the lines read have produced, the empty mapping included.
C11_InteractionNoError ==
    phase = "done" => interaction.error = "none"

\* The counts of the report when it is printed to its end: each is the number
\* of conversations whose request has the field set (a request that lacks the
\* field is counted in none).
C11_AbsentFieldsCountNothing ==
    (phase = "done" /\ interaction.error = "none") =>
        /\ interaction.total = Cardinality(DOMAIN det.conversations.v)
        /\ interaction.total > 0
        /\ \A id \in DOMAIN det.conversations.v :
              (DOMAIN RequestOf(det.conversations, id).v) \cap
                  {K_stream, K_tools, K_system, K_output_config} = {}
              => /\ ~IsStreaming(RequestOf(det.conversations, id))
                 /\ ~UsesTools(RequestOf(det.conversations, id))
                 /\ ~UsesCache(RequestOf(det.conversations, id))
                 /\ ~StructuredOutput(RequestOf(det.conversations, id))

\* the blocks the decoder has gone through: the text starts with event:, so
\* the first part of the split is empty and part i + 1 is block i
BlocksDecoded == IF sse_i >= 2 THEN sse_i - 2 ELSE 0

\* the data section of a part, as the decoder cuts it out (lines 21-32)
DataSection(part) ==
    LET p == Strip(part)
        n == IndexFrom(p, NL, 1)
    IN  Strip(RemoveFirst(SubSeq(p, n + 1, Len(p)), DATA))

\* C12: when the decoder has gone through a block written with a complete
\* JSON object in its data section, followed or not by more text, and with
\* or without braces inside the object's strings, the object it has taken is
\* exactly that object (the brace scan ends on the object's last brace) and
\* the event it has listed last carries it.
C12_FirstObjectExtracted ==
    LET i == BlocksDecoded IN
    (i >= 1 /\ WellFormed(sse_blocks[i])) =>
        LET json_str == DataSection(sse_parts[i + 1]) IN
        /\ JsonEnd(json_str, 1, 0) = Len(RenderJSON(sse_blocks[i].data))
        /\ json_loads(SubSeq(json_str, 1, JsonEnd(json_str, 1, 0))).ok
        /\ Len(sse_st.events)
              = Cardinality({j \in 1..i : WellFormed(sse_blocks[j])})
        /\ sse_st.events[Len(sse_st.events)].data = sse_blocks[i].data

\* The same for the blocks whose strings contain no brace: what follows the
\* object is discarded.
C12_BraceFreeExtracted ==
    LET i == BlocksDecoded IN
    (i >= 1 /\ WellFormed(sse_blocks[i])
       /\ \A j \in 1..i : sse_blocks[j] # B_brace) =>
        LET json_str == DataSection(sse_parts[i + 1]) IN
        /\ JsonEnd(json_str, 1, 0) = Len(RenderJSON(sse_blocks[i].data))
        /\ Len(sse_st.events)
              = Cardinality({j \in 1..i : WellFormed(sse_blocks[j])})
        /\ sse_st.events[Len(sse_st.events)].data = sse_blocks[i].data

C12_TrailingDiscarded ==
    ~(BlocksDecoded >= 1 /\ sse_blocks[BlocksDecoded] = B_trail)

\* the last response_body line read for rid (there is one)
LastResponse(rid) ==
    log[SetMax({i \in Positions : IsResponseFor(log[i], rid)})]

\* C13: after any lines, an entry that holds a response_text holds the text,
\* the usage, the streaming flag and the raw body of one response_body line,
\* the last one read for its id, and holds no parse_error.
C13_ResponseFieldsConsistent ==
    \A rid \in Ids :
        ( /\ Str(rid) \in DOMAIN conversations.v
          /\ K_response_text \in DOMAIN conversations.v[Str(rid)].v )
        => LET entry == conversations.v[Str(rid)]
               last  == LastResponse(rid)
           IN  /\ entry.v[K_response_raw] = last.v[K_fields].v[K_body]
               /\ entry.v[K_streaming] = Get(last.v[K_fields], K_streaming, JFalse)
               /\ K_response_text \in ResponseOf(last).set
               /\ entry.v[K_response_text] = JStr(ResponseOf(last).text)
               /\ K_usage \in DOMAIN entry.v
               /\ entry.v[K_usage] = ResponseOf(last).usage
               /\ K_parse_error \notin DOMAIN entry.v

\* The same for the ids all of whose responses were interpreted: the entry
\* is the last response's.
C13_ConsistentWhenAllInterpreted ==
    \A rid \in Ids :
        ( /\ Str(rid) \in DOMAIN conversations.v
          /\ K_response_text \in DOMAIN conversations.v[Str(rid)].v
          /\ \A i \in Positions : IsResponseFor(log[i], rid)
                                    => ~ResponseOf(log[i]).raised )
        => LET entry == conversations.v[Str(rid)]
               last  == LastResponse(rid)
           IN  /\ entry.v[K_response_raw] = last.v[K_fields].v[K_body]
               /\ entry.v[K_streaming] = Get(last.v[K_fields], K_streaming, JFalse)
               /\ entry.v[K_response_text] = JStr(ResponseOf(last).text)
               /\ entry.v[K_usage] = ResponseOf(last).usage
               /\ K_parse_error \notin DOMAIN entry.v

====
